---- MODULE Spec2Model ----
(***************************************************************************)
(* Model of the useSimpleFormState hook (src/use-simple-form-state.ts).    *)
(*                                                                         *)
(* The hook keeps three React state cells (values, errors, touched).  A    *)
(* render reads the cells and hands out a read model (values, errors,      *)
(* touched, dirty, isDirty) together with callbacks that close over the    *)
(* values of that render.  A call of setFieldValue / validate / reset made *)
(* from an event handler queues updates on the cells; when the handler     *)
(* returns React applies them in order and renders again.                  *)
(***************************************************************************)
EXTENDS Integers, Sequences, FiniteSets, TLC

(***************************************************************************)
(* JavaScript values a field can hold.                                     *)
(***************************************************************************)
Str(s) == [t |-> "string", s |-> s]
Num(n) == [t |-> "number", n |-> n]
Bool(b) == [t |-> "boolean", b |-> b]
NaN == [t |-> "NaN"]
Null == [t |-> "null"]
Undefined == [t |-> "undefined"]
\* A composite value: ref is the identity of the object (a sequence of
\* strings), props its contents.
Obj(r, p) == [t |-> "object", ref |-> r, props |-> p]

IsObject(v) == v.t = "object"

\* v == null
IsNullish(v) == v.t \in {"null", "undefined"}

\* typeof v
TypeOf(v) ==
    CASE v.t = "NaN" -> "number"
      [] v.t = "null" -> "object"
      [] OTHER -> v.t

\* a === b
StrictEqual(a, b) ==
    IF IsObject(a) /\ IsObject(b) THEN a.ref = b.ref
    ELSE a = b /\ a.t # "NaN"

RECURSIVE isEqual(_, _)
\* Mutant: compares composite values by identity only.
isEqualByReference(a, b) == StrictEqual(a, b)

\* fast-deep-equal: identical values, or objects with the same keys whose
\* entries are recursively equal, or both NaN.
isEqual(a, b) ==
    IF StrictEqual(a, b) THEN TRUE
    ELSE IF IsObject(a) /\ IsObject(b)
         THEN /\ DOMAIN a.props = DOMAIN b.props
              /\ \A k \in DOMAIN a.props : isEqual(a.props[k], b.props[k])
         ELSE a.t = "NaN" /\ b.t = "NaN"

\* The identity of the copy structuredClone makes of the object r: a new
\* object, distinct from r and from every object the caller holds.
CloneRef(r) == Append(r, "clone")

RECURSIVE structuredClone(_)
\* structuredClone(v): primitives as they are, objects copied recursively
\* into new objects.
structuredClone(v) ==
    IF IsObject(v)
    THEN Obj(CloneRef(v.ref), [k \in DOMAIN v.props |-> structuredClone(v.props[k])])
    ELSE v

(***************************************************************************)
(* Number(string) for the strings an <input> hands over: surrounding       *)
(* blanks are dropped, the empty string is 0, an optionally signed run of  *)
(* decimal digits is its value, anything else is NaN.                      *)
(***************************************************************************)
Digits == <<"0", "1", "2", "3", "4", "5", "6", "7", "8", "9">>

IsDigit(c) == \E d \in 1..Len(Digits) : Digits[d] = c

DigitValue(c) == (CHOOSE d \in 1..Len(Digits) : Digits[d] = c) - 1

RECURSIVE Trim(_)
Trim(s) ==
    IF Len(s) = 0 THEN s
    ELSE IF Head(s) = " " THEN Trim(Tail(s))
    ELSE IF SubSeq(s, Len(s), Len(s)) = " " THEN Trim(SubSeq(s, 1, Len(s) - 1))
    ELSE s

AllDigits(s) == Len(s) > 0 /\ \A i \in 1..Len(s) : IsDigit(SubSeq(s, i, i))

RECURSIVE DigitsValue(_)
DigitsValue(s) ==
    IF Len(s) = 0 THEN 0
    ELSE 10 * DigitsValue(SubSeq(s, 1, Len(s) - 1)) + DigitValue(SubSeq(s, Len(s), Len(s)))

\* Number(raw)
Number(raw) ==
    LET s == Trim(raw) IN
    IF Len(s) = 0 THEN Num(0)
    ELSE IF AllDigits(s) THEN Num(DigitsValue(s))
    ELSE IF Head(s) = "-" /\ AllDigits(Tail(s)) THEN Num(0 - DigitsValue(Tail(s)))
    ELSE IF Head(s) = "+" /\ AllDigits(Tail(s)) THEN Num(DigitsValue(Tail(s)))
    ELSE NaN

(***************************************************************************)
(* Mappings with some keys absent ({} in the source).                      *)
(***************************************************************************)
Empty == <<>>

\* { ...m, [k]: v }
Spread(m, k, v) == [x \in DOMAIN m \cup {k} |-> IF x = k THEN v ELSE m[x]]

RECURSIVE Join(_, _)
RECURSIVE JoinComma(_, _)
\* Mutant: joins with a bare comma.
JoinComma(messages, sep) ==
    IF Len(messages) = 0 THEN ""
    ELSE IF Len(messages) = 1 THEN messages[1]
    ELSE messages[1] \o "," \o JoinComma(Tail(messages), sep)

\* messages.join(sep)
Join(messages, sep) ==
    IF Len(messages) = 0 THEN ""
    ELSE IF Len(messages) = 1 THEN messages[1]
    ELSE messages[1] \o sep \o Join(Tail(messages), sep)

(***************************************************************************)
(* The schema: zod's parse and ZodError.flatten, for three schemas.        *)
(*   "user"    z.object({ name: z.string().min(1, 'Required')              *)
(*                                        .min(2, 'Too short'),            *)
(*                        age: z.number().min(0, 'Too small') })           *)
(*   "profile" z.object({ name: z.string().min(1, 'Required'),             *)
(*                        address: z.object({                              *)
(*                            city: z.string().min(1, 'Required') }) })    *)
(*   "loose"   z.object({ name: z.string(), age: z.any() })                *)
(*               .refine(v => v.age.toFixed(0) !== '-1', 'Negative age')   *)
(*             whose refinement callback dereferences age: an age that is  *)
(*             not a number makes the callback raise a TypeError, which    *)
(*             zod lets through as it is.                                  *)
(***************************************************************************)
Issue(path, message) == [path |-> path, message |-> message]

If(cond, issues) == IF cond THEN issues ELSE <<>>

\* z.string().min(1, 'Required').min(2, 'Too short') at path: every failed
\* check adds its issue.
StringIssues(path, v, tooShort) ==
    IF v.t # "string" THEN <<Issue(path, "Expected string")>>
    ELSE If(Len(v.s) < 1, <<Issue(path, "Required")>>)
         \o If(tooShort /\ Len(v.s) < 2, <<Issue(path, "Too short")>>)

\* z.number().min(0, 'Too small'): NaN and null are not numbers to zod.
NumberIssues(path, v) ==
    IF v.t # "number" THEN <<Issue(path, "Expected number")>>
    ELSE If(v.n < 0, <<Issue(path, "Too small")>>)

\* z.object({ city: z.string().min(1, 'Required') }): issues of the nested
\* object carry the two-element path.
AddressIssues(path, v) ==
    IF v.t # "object" THEN <<Issue(path, "Expected object")>>
    ELSE IF "city" \notin DOMAIN v.props THEN <<Issue(path \o <<"city">>, "Required")>>
    ELSE StringIssues(path \o <<"city">>, v.props.city, FALSE)

Ok == [kind |-> "ok"]
ZodError(issues) == [kind |-> "ZodError", issues |-> issues]
\* A failure that is not an instance of ZodError.
OtherError == [kind |-> "TypeError"]

Outcome(issues) == IF Len(issues) = 0 THEN Ok ELSE ZodError(issues)

\* schema.parse(vals): its outcome.
Parse(sch, vals) ==
    CASE sch = "user" ->
           Outcome(StringIssues(<<"name">>, vals.name, TRUE)
                   \o NumberIssues(<<"age">>, vals.age))
      [] sch = "profile" ->
           Outcome(StringIssues(<<"name">>, vals.name, FALSE)
                   \o AddressIssues(<<"address">>, vals.address))
      [] sch = "loose" ->
           IF vals.name.t # "string"
           THEN ZodError(<<Issue(<<"name">>, "Expected string")>>)
           ELSE IF vals.age.t # "number" THEN OtherError
           ELSE IF vals.age.n < 0 THEN ZodError(<<Issue(<<>>, "Negative age")>>)
           ELSE Ok

\* The messages of the issues of seq, in order.
Messages(issues) == [i \in 1..Len(issues) |-> issues[i].message]

\* ZodError.flatten().fieldErrors: the issues with a non-empty path, grouped
\* under the first element of their path, in order.
FlattenFieldErrors(issues) ==
    LET keys == {issues[i].path[1] : i \in {j \in 1..Len(issues) : Len(issues[j].path) > 0}}
    IN  [k \in keys |->
            Messages(SelectSeq(issues, LAMBDA e : Len(e.path) > 0 /\ e.path[1] = k))]

(***************************************************************************)
(* Bounds and inputs.                                                      *)
(***************************************************************************)
\* The most calls one event handler makes before React renders again.
MaxBatch == 2

\* useSimpleFormState(schema, { initialValues }): the hooks the model mounts.
Setups ==
    { [schema |-> "user", initialValues |-> [name |-> Str(""), age |-> Num(0)]],
      [schema |-> "loose", initialValues |-> [name |-> Str(""), age |-> Undefined]],
      [schema |-> "profile",
       initialValues |-> [name |-> Str("ab"),
                          address |-> Obj(<<"init">>, [city |-> Str("x")])]] }

\* The values a caller passes to setFieldValue for a field.
Inputs(name) ==
    CASE name = "name" -> {Str(""), Str("a"), Str("ab")}
      [] name = "age" -> {Num(0), Num(-1), Null}
      [] name = "address" -> {Obj(<<"a">>, [city |-> Str("x")]),
                              Obj(<<"b">>, [city |-> Str("")])}

\* event.target.value of the text inputs, number inputs and selects, and
\* event.target.checked of the checkboxes, that the model types in.
TextRaw == {"", "ab"}
NumberRaw == {"", "0", "-1", "x"}
SelectRaw == {"ab"}
CheckedRaw == BOOLEAN

(***************************************************************************)
(* State.                                                                  *)
(***************************************************************************)
VARIABLES
    schema,         \* the schema argument
    initialValues,  \* options.initialValues
    valuesState,    \* the state cell of useState(options.initialValues)
    errorsState,    \* the state cell of useState({}) for errors
    touchedState,   \* the state cell of useState({}) for touched
    valuesChanged,  \* valuesState is another object than the rendered values
    values,         \* values of the current render, closed over by callbacks
    errors,         \* errors of the current render
    touched,        \* touched of the current render
    dirty,          \* the memoized dirty of the current render
    isDirty,        \* the memoized isDirty of the current render
    batch,          \* the calls of the current (or the last) event handler
    pending,        \* an event handler has made calls since the last render
    adapter         \* what the last bind.* call of the current render gave

vars == <<schema, initialValues, valuesState, errorsState, touchedState,
          valuesChanged, values, errors, touched, dirty, isDirty, batch, pending,
          adapter>>

Fields == DOMAIN initialValues

(***************************************************************************)
(* The derived read model.                                                 *)
(***************************************************************************)
\* Mutant: compares with the current values instead of the initial ones.
dirtyOfSelf(vals, init) == [key \in DOMAIN vals |-> ~isEqual(vals[key], vals[key])]

\* The body of the dirty memo: for every key of values, whether the value
\* differs from options.initialValues[key].
dirtyOf(vals, init) == [key \in DOMAIN vals |-> ~isEqual(vals[key], init[key])]

\* Mutant: every instead of some.
everyTrue(d) == \A key \in DOMAIN d : d[key]

\* Object.values(d).some(Boolean)
someTrue(d) == \E key \in DOMAIN d : d[key]

\* Mutant: a memo that never recomputes.
useMemoNever(changed, cached, fresh) == cached

\* useMemo(() => fresh, deps): the cached result while the dependencies are
\* the same objects, the fresh one when a dependency changed.
useMemo(changed, cached, fresh) == IF changed THEN fresh ELSE cached

\* No bind.* call was made since the last call or render.
NoAdapter == [kind |-> "none"]

Init ==
    /\ \E setup \in Setups :
          /\ schema = setup.schema
          /\ initialValues = setup.initialValues
    /\ valuesState = initialValues
    /\ errorsState = Empty
    /\ touchedState = Empty
    /\ valuesChanged = FALSE
    /\ values = valuesState
    /\ errors = errorsState
    /\ touched = touchedState
    /\ dirty = dirtyOf(values, initialValues)
    /\ isDirty = someTrue(dirty)
    /\ batch = <<>>
    /\ pending = FALSE
    /\ adapter = NoAdapter

(***************************************************************************)
(* Operations.                                                             *)
(***************************************************************************)
\* An event handler may make one more call.
CanCall == pending => Len(batch) < MaxBatch

\* Records the call in the batch of the running event handler.
Called(call) ==
    /\ batch' = IF pending THEN Append(batch, call) ELSE <<call>>
    /\ pending' = TRUE
    /\ adapter' = NoAdapter

\* Mutant: spreads the values of the render instead of the previous state.
valuesUpdaterFromRender(previous, name, value) == Spread(values, name, value)

\* Mutant: an updater that drops the write.
valuesUpdaterDropped(previous, name, value) == previous

\* previous => ({ ...previous, [name]: value })
valuesUpdater(previous, name, value) == Spread(previous, name, value)

\* Mutant: an updater that forgets the flags of the other fields.
touchedUpdaterOnly(previous, name) == Spread(Empty, name, TRUE)

\* previous => ({ ...previous, [name]: true })
touchedUpdater(previous, name) == Spread(previous, name, TRUE)

\* Mutant: writes through to the object the hook was given as initialValues.
SetFieldValueInPlace(name, value) ==
    /\ CanCall
    /\ valuesState' = valuesUpdater(valuesState, name, value)
    /\ initialValues' = valuesUpdater(initialValues, name, value)
    /\ touchedState' = touchedUpdater(touchedState, name)
    /\ valuesChanged' = TRUE
    /\ Called([op |-> "setFieldValue", name |-> name, value |-> value])
    /\ UNCHANGED <<schema, errorsState, values, errors, touched, dirty, isDirty>>

\* Mutant: a write clears the error of its field.
SetFieldValueClearsError(name, value) ==
    /\ CanCall
    /\ valuesState' = valuesUpdater(valuesState, name, value)
    /\ touchedState' = touchedUpdater(touchedState, name)
    /\ errorsState' = [key \in DOMAIN errorsState \ {name} |-> errorsState[key]]
    /\ valuesChanged' = TRUE
    /\ Called([op |-> "setFieldValue", name |-> name, value |-> value])
    /\ UNCHANGED <<schema, initialValues, values, errors, touched, dirty, isDirty>>

\* Mutant: marks the field touched only when the value changes.
SetFieldValueTouchOnChange(name, value) ==
    /\ CanCall
    /\ valuesState' = valuesUpdater(valuesState, name, value)
    /\ touchedState' = IF isEqual(valuesState[name], value) THEN touchedState
                       ELSE touchedUpdater(touchedState, name)
    /\ valuesChanged' = TRUE
    /\ Called([op |-> "setFieldValue", name |-> name, value |-> value])
    /\ UNCHANGED <<schema, initialValues, errorsState, values, errors, touched,
                   dirty, isDirty>>

\* setFieldValue(name, value)
SetFieldValue(name, value) ==
    /\ CanCall
    /\ valuesState' = valuesUpdater(valuesState, name, value)
    /\ touchedState' = touchedUpdater(touchedState, name)
    /\ valuesChanged' = TRUE
    /\ Called([op |-> "setFieldValue", name |-> name, value |-> value])
    /\ UNCHANGED <<schema, initialValues, errorsState, values, errors, touched,
                   dirty, isDirty>>

\* The guard of bind.text / bind.number / bind.checkbox: the current value
\* is neither null nor undefined and its typeof is not kind.
Mismatch(v, kind) == ~IsNullish(v) /\ TypeOf(v) # kind

\* values[name] ?? ''
OrEmpty(v) == IF IsNullish(v) THEN Str("") ELSE v

\* !!values[name]
Truthy(v) ==
    CASE v.t = "string" -> Len(v.s) > 0
      [] v.t = "number" -> v.n # 0
      [] v.t = "boolean" -> v.b
      [] v.t = "object" -> TRUE
      [] OTHER -> FALSE

\* A bind.* call that raised its type-mismatch Error.
Threw(kind, name) == [kind |-> kind, name |-> name, threw |-> TRUE]

\* The props a bind.* call returned: value for text, number and select,
\* checked for checkbox.
Props(kind, name, shown) == [kind |-> kind, name |-> name, threw |-> FALSE, shown |-> shown]

\* Mutant: a text binding that coerces instead of failing.
textNoGuard(vals, name) == Props("text", name, OrEmpty(vals[name]))

\* text(name): what the call gives for the values vals of the render.
text(vals, name) ==
    IF Mismatch(vals[name], "string") THEN Threw("text", name)
    ELSE Props("text", name, OrEmpty(vals[name]))

\* number(name)
number(vals, name) ==
    IF Mismatch(vals[name], "number") THEN Threw("number", name)
    ELSE Props("number", name, OrEmpty(vals[name]))

\* Mutant: a checkbox binding without the type guard.
checkboxNoGuard(vals, name) == Props("checkbox", name, Bool(Truthy(vals[name])))

\* checkbox(name)
checkbox(vals, name) ==
    IF Mismatch(vals[name], "boolean") THEN Threw("checkbox", name)
    ELSE Props("checkbox", name, Bool(Truthy(vals[name])))

\* select(name)
select(vals, name) == Props("select", name, OrEmpty(vals[name]))

\* The component calls bind.text / number / checkbox / select (name) while
\* it renders: the call reads the values of the render and writes nothing.
Bind(kind, name) ==
    /\ ~pending
    /\ adapter' = CASE kind = "text" -> text(values, name)
                     [] kind = "number" -> number(values, name)
                     [] kind = "checkbox" -> checkbox(values, name)
                     [] kind = "select" -> select(values, name)
    /\ UNCHANGED <<schema, initialValues, valuesState, errorsState, touchedState,
                   valuesChanged, values, errors, touched, dirty, isDirty, batch,
                   pending>>

\* The kinds of adapter.
Kinds == {"text", "number", "checkbox", "select"}

\* bind.text(name).onChange(event) with event.target.value = raw
TextOnChange(name, raw) ==
    /\ ~Mismatch(values[name], "string")
    /\ SetFieldValue(name, Str(raw))

\* Mutant: a number handler without the empty-string case.
NumberOnChangeNoEmptyCase(name, raw) ==
    /\ ~Mismatch(values[name], "number")
    /\ SetFieldValue(name, Number(raw))

\* bind.number(name).onChange(event) with event.target.value = raw
NumberOnChange(name, raw) ==
    /\ ~Mismatch(values[name], "number")
    /\ SetFieldValue(name, IF raw = "" THEN Null ELSE Number(raw))

\* bind.checkbox(name).onChange(event) with event.target.checked = checked
CheckboxOnChange(name, checked) ==
    /\ ~Mismatch(values[name], "boolean")
    /\ SetFieldValue(name, Bool(checked))

\* bind.select(name).onChange(event) with event.target.value = raw
SelectOnChange(name, raw) == SetFieldValue(name, Str(raw))

\* The fieldErrors that validate builds from a ZodError: one entry per key
\* with at least one message, the messages joined with ', '.
fieldErrorsOf(issues) ==
    LET flattenedErrors == FlattenFieldErrors(issues)
    IN  [key \in {k \in DOMAIN flattenedErrors : Len(flattenedErrors[k]) > 0} |->
            Join(flattenedErrors[key], ", ")]

\* Mutant: a successful parse leaves the errors of an earlier call in place.
errorsAfterKeepOnSuccess(outcome, previous) ==
    CASE outcome.kind = "ZodError" -> fieldErrorsOf(outcome.issues)
      [] OTHER -> previous

\* The errors state validate leaves: {} after a successful parse, the
\* fieldErrors after a ZodError, the previous errors (no setErrors call)
\* after any other failure.
errorsAfter(outcome, previous) ==
    CASE outcome.kind = "ok" -> Empty
      [] outcome.kind = "ZodError" -> fieldErrorsOf(outcome.issues)
      [] OTHER -> previous

\* What validate returns: true after a successful parse; the catch block
\* returns false for every failure, a ZodError or not.
validateReturn(outcome) == IF outcome.kind = "ok" THEN "true" ELSE "false"

\* Mutant: validate stores the parsed values back and marks nothing touched.
ValidateWritesBack ==
    /\ CanCall
    /\ LET outcome == Parse(schema, values) IN
         /\ errorsState' = errorsAfter(outcome, errorsState)
         /\ Called([op |-> "validate", parsed |-> values, outcome |-> outcome.kind,
                    ret |-> validateReturn(outcome)])
    /\ valuesState' = values
    /\ touchedState' = Empty
    /\ valuesChanged' = TRUE
    /\ UNCHANGED <<schema, initialValues, values, errors, touched, dirty, isDirty>>

\* validate(): parses the values of the render the callback belongs to.
Validate ==
    /\ CanCall
    /\ LET outcome == Parse(schema, values) IN
         /\ errorsState' = errorsAfter(outcome, errorsState)
         /\ Called([op |-> "validate", parsed |-> values, outcome |-> outcome.kind,
                    ret |-> validateReturn(outcome)])
    /\ UNCHANGED <<schema, initialValues, valuesState, touchedState, valuesChanged,
                   values, errors, touched, dirty, isDirty>>

\* Mutant: reset keeps the touched flags.
ResetKeepsTouched ==
    /\ CanCall
    /\ valuesState' = [key \in DOMAIN initialValues |-> structuredClone(initialValues[key])]
    /\ errorsState' = Empty
    /\ valuesChanged' = TRUE
    /\ Called([op |-> "reset"])
    /\ UNCHANGED <<schema, initialValues, touchedState, values, errors, touched,
                   dirty, isDirty>>

\* reset()
Reset ==
    /\ CanCall
    /\ valuesState' = [key \in DOMAIN initialValues |-> structuredClone(initialValues[key])]
    /\ errorsState' = Empty
    /\ touchedState' = Empty
    /\ valuesChanged' = TRUE
    /\ Called([op |-> "reset"])
    /\ UNCHANGED <<schema, initialValues, values, errors, touched, dirty, isDirty>>

\* The event handler returns: React applies the queued updates and renders
\* the hook again.
Render ==
    /\ pending
    /\ values' = valuesState
    /\ errors' = errorsState
    /\ touched' = touchedState
    /\ dirty' = useMemo(valuesChanged, dirty, dirtyOf(valuesState, initialValues))
    /\ isDirty' = useMemo(valuesChanged, isDirty, someTrue(dirty'))
    /\ valuesChanged' = FALSE
    /\ pending' = FALSE
    /\ adapter' = NoAdapter
    /\ UNCHANGED <<schema, initialValues, valuesState, errorsState, touchedState, batch>>

\* A call made from an event handler.
Call ==
    \/ \E name \in Fields : \E value \in Inputs(name) : SetFieldValue(name, value)
    \/ \E name \in Fields : \E raw \in TextRaw : TextOnChange(name, raw)
    \/ \E name \in Fields : \E raw \in NumberRaw : NumberOnChange(name, raw)
    \/ \E name \in Fields : \E checked \in CheckedRaw : CheckboxOnChange(name, checked)
    \/ \E name \in Fields : \E raw \in SelectRaw : SelectOnChange(name, raw)
    \/ Validate
    \/ Reset

Next ==
    \/ Call
    \/ Render

\* The component also asks for its adapters at every render; its event
\* handlers make one call each.
NextBind ==
    \/ ~pending /\ Call
    \/ Render
    \/ \E kind \in Kinds : \E name \in Fields : Bind(kind, name)

Spec == Init /\ [][Next]_vars

SpecBind == Init /\ [][NextBind]_vars

(***************************************************************************)
(* Vocabulary of the properties.                                           *)
(***************************************************************************)
\* The last call of the current (or the last) event handler.
LastCall == batch[Len(batch)]

\* A call was made and the last one is op.
LastIs(op) == Len(batch) > 0 /\ LastCall.op = op

\* This step is a call of op (the call is the last of batch').
CallStep(op) ==
    /\ pending' /\ (~pending \/ batch' # batch)
    /\ batch'[Len(batch')].op = op

\* This step is the render that follows an event handler.
RenderStep == pending /\ ~pending'

\* touched[name] === true in the mapping m.
IsTouched(m, name) == name \in DOMAIN m /\ m[name] = TRUE

RECURSIVE Contents(_)
\* A value without the identities of its objects.
Contents(v) ==
    IF IsObject(v) THEN [k \in DOMAIN v.props |-> Contents(v.props[k])] ELSE <<v>>

\* Deep structural equality, stated without the code's comparison.
DeepEqual(a, b) == IsObject(a) = IsObject(b) /\ Contents(a) = Contents(b)

\* m and n are the same mapping for every key but name.
SameExcept(m, n, name) ==
    /\ DOMAIN m \ {name} = DOMAIN n \ {name}
    /\ \A g \in DOMAIN m \ {name} : m[g] = n[g]

(***************************************************************************)
(* C1: after setFieldValue(f, v), values[f] is v and touched[f] is true,   *)
(* and every other field's value and touched flag are what they were: in   *)
(* the state cells right after the call, and in the read model of the      *)
(* render that follows a handler making that one call.                     *)
(***************************************************************************)
C1_SetFieldValueFrame ==
    [][ /\ CallStep("setFieldValue") =>
            LET call == batch'[Len(batch')] IN
            /\ valuesState'[call.name] = call.value
            /\ IsTouched(touchedState', call.name)
            /\ SameExcept(valuesState', valuesState, call.name)
            /\ SameExcept(touchedState', touchedState, call.name)
        /\ (RenderStep /\ Len(batch) = 1 /\ LastIs("setFieldValue")) =>
            /\ values'[LastCall.name] = LastCall.value
            /\ IsTouched(touched', LastCall.name)
            /\ SameExcept(values', values, LastCall.name)
            /\ SameExcept(touched', touched, LastCall.name) ]_vars

\* A handler that made the one call setFieldValue(f, v) was rendered, with
\* another field touched earlier and f holding another value than initially.
C1_Witness ==
    /\ ~pending /\ Len(batch) = 1 /\ LastIs("setFieldValue")
    /\ values[LastCall.name] = LastCall.value
    /\ values[LastCall.name] # initialValues[LastCall.name]
    /\ \E g \in Fields \ {LastCall.name} :
          IsTouched(touched, g) /\ values[g] # initialValues[g]

(***************************************************************************)
(* C2: in every state, for every key f of values, dirty[f] is true exactly *)
(* when values[f] is not deep-structurally equal to initialValues[f]; two  *)
(* distinct objects with the same contents count as equal.                 *)
(***************************************************************************)
C2_DirtyIsNotDeepEqual ==
    /\ DOMAIN dirty = DOMAIN values
    /\ \A f \in DOMAIN values : dirty[f] = ~DeepEqual(values[f], initialValues[f])

\* A field holds an object other than the initial one with the same contents
\* and is clean, while another field is dirty.
C2_Witness ==
    /\ ~pending
    /\ \E f \in Fields :
          /\ IsObject(values[f]) /\ IsObject(initialValues[f])
          /\ values[f].ref # initialValues[f].ref
          /\ ~dirty[f]
    /\ \E g \in Fields : dirty[g]

(***************************************************************************)
(* C3: in every state, isDirty is true if and only if some dirty[f] is     *)
(* true; when every value is deep-equal to its initial value, isDirty is   *)
(* false.                                                                  *)
(***************************************************************************)
C3_IsDirtyIffSomeDirty ==
    /\ isDirty = (\E f \in DOMAIN dirty : dirty[f] = TRUE)
    /\ (\A f \in DOMAIN values : DeepEqual(values[f], initialValues[f])) => ~isDirty

\* One field is dirty and another is not, and isDirty is true.
C3_Witness ==
    /\ ~pending /\ isDirty
    /\ \E f, g \in DOMAIN dirty : dirty[f] /\ ~dirty[g]

(***************************************************************************)
(* C4: a validate() whose values satisfy the schema returns true and       *)
(* leaves errors empty, whatever errors held before the call.              *)
(***************************************************************************)
C4_ValidateSuccessClearsErrors ==
    (LastIs("validate") /\ Parse(schema, LastCall.parsed).kind = "ok") =>
        /\ LastCall.ret = "true"
        /\ errorsState = Empty
        /\ ~pending => errors = Empty

\* validate() has just returned true while the read model still shows the
\* errors of an earlier failed validate().
C4_Witness ==
    /\ pending /\ LastIs("validate") /\ LastCall.ret = "true"
    /\ errors # Empty /\ errorsState = Empty

(***************************************************************************)
(* C5: a validate() whose parse fails with a ZodError returns false and    *)
(* overwrites errors with exactly one entry per field that has a message,  *)
(* the field's messages joined in order with ", "; fields without a        *)
(* message have no entry.                                                  *)
(***************************************************************************)
\* The messages the schema reports for field f, in order.
ReportedFor(issues, f) ==
    Messages(SelectSeq(issues, LAMBDA e : Len(e.path) > 0 /\ e.path[1] = f))

\* The messages of a field as one string.
Joined(messages) ==
    CASE Len(messages) = 1 -> messages[1]
      [] Len(messages) = 2 -> messages[1] \o ", " \o messages[2]

C5_ValidateFailureOverwritesErrors ==
    (LastIs("validate") /\ LastCall.outcome = "ZodError") =>
        LET issues == Parse(schema, LastCall.parsed).issues IN
        /\ LastCall.ret = "false"
        /\ \A f \in Fields :
              IF Len(ReportedFor(issues, f)) = 0
              THEN f \notin DOMAIN errorsState
              ELSE f \in DOMAIN errorsState
                   /\ errorsState[f] = Joined(ReportedFor(issues, f))
        /\ DOMAIN errorsState \subseteq Fields
        /\ (schema = "user" /\ LastCall.parsed.name = Str("")) =>
              errorsState.name = "Required, Too short"
        /\ (schema = "user" /\ LastCall.parsed.name = Str("a")) =>
              errorsState.name = "Too short"
        /\ ~pending => errors = errorsState

\* A failed validate() reported two messages for name and none for age, while
\* the read model still shows the age error of an earlier validate().
C5_Witness ==
    /\ pending /\ LastIs("validate") /\ LastCall.ret = "false"
    /\ "age" \in DOMAIN errors
    /\ DOMAIN errorsState = {"name"}
    /\ errorsState.name = "Required, Too short"

(***************************************************************************)
(* C6: when schema.parse raises a failure that is not a ZodError,          *)
(* validate() does not catch it: the failure reaches the caller and        *)
(* validate() returns no boolean.                                          *)
(***************************************************************************)
C6_UnexpectedFailurePropagates ==
    (LastIs("validate") /\ LastCall.outcome = "TypeError") => LastCall.ret = "throws"

(***************************************************************************)
(* C7: after reset(), whatever came before, values is deep-equal to        *)
(* initialValues, errors and touched are empty, every dirty[f] is false    *)
(* and isDirty is false; a second reset() leaves that state as it is.      *)
(***************************************************************************)
C7_AfterReset ==
    LastIs("reset") =>
        /\ DOMAIN valuesState = Fields
        /\ \A f \in Fields : DeepEqual(valuesState[f], initialValues[f])
        /\ errorsState = Empty
        /\ touchedState = Empty
        /\ ~pending =>
              /\ DOMAIN values = Fields
              /\ \A f \in Fields : DeepEqual(values[f], initialValues[f])
              /\ errors = Empty
              /\ touched = Empty
              /\ \A f \in Fields : dirty[f] = FALSE
              /\ isDirty = FALSE

C7_ResetRestoresAndIsIdempotent ==
    /\ []C7_AfterReset
    /\ [][ (LastIs("reset") /\ CallStep("reset")) =>
              /\ \A f \in Fields : DeepEqual(valuesState'[f], valuesState[f])
              /\ errorsState' = errorsState
              /\ touchedState' = touchedState ]_vars

\* A handler wrote a field and then called reset(), from a render that showed
\* dirty values, touched flags and errors; the render after it is clean.
C7_Witness ==
    /\ ~pending /\ Len(batch) = 2 /\ LastIs("reset")
    /\ batch[1].op = "setFieldValue"
    /\ \E f \in Fields : IsObject(values[f]) /\ values[f].ref # initialValues[f].ref
    /\ ~isDirty /\ touched = Empty

(***************************************************************************)
(* C8: a validate() that follows setFieldValue(f, v) with nothing in       *)
(* between, also back-to-back in one event handler, validates values in    *)
(* which values[f] is v.                                                   *)
(***************************************************************************)
C8_ValidateSeesPrecedingWrite ==
    (Len(batch) >= 2 /\ LastIs("validate") /\ batch[Len(batch) - 1].op = "setFieldValue") =>
        LastCall.parsed[batch[Len(batch) - 1].name] = batch[Len(batch) - 1].value

(***************************************************************************)
(* C9: touched is monotonic between resets: a flag that is true stays true *)
(* through every setFieldValue and validate, only reset() clears it, and   *)
(* only setFieldValue (directly or from a binding handler) sets it, in the *)
(* state cell and in the read model.                                       *)
(***************************************************************************)
C9_TouchedMonotonic ==
    [][ \A f \in Fields :
          /\ (IsTouched(touchedState, f) /\ ~CallStep("reset")) =>
                IsTouched(touchedState', f)
          /\ (~IsTouched(touchedState, f) /\ IsTouched(touchedState', f)) =>
                CallStep("setFieldValue") /\ batch'[Len(batch')].name = f
          /\ (IsTouched(touched, f) /\ ~IsTouched(touched', f)) =>
                RenderStep /\ \E i \in 1..Len(batch) : batch[i].op = "reset"
          /\ (~IsTouched(touched, f) /\ IsTouched(touched', f)) =>
                /\ RenderStep
                /\ \E i \in 1..Len(batch) :
                      batch[i].op = "setFieldValue" /\ batch[i].name = f ]_vars

\* Both fields are touched, one of them was set back to its initial value,
\* and the last call was a validate().
C9_Witness ==
    /\ ~pending /\ LastIs("validate")
    /\ \A f \in Fields : IsTouched(touched, f)
    /\ \E f \in Fields : values[f] = initialValues[f]
    /\ \E f \in Fields : values[f] # initialValues[f]

(***************************************************************************)
(* C10: validate() never changes values or touched, whether it returns     *)
(* true or false; dirty and isDirty are unchanged too.                     *)
(***************************************************************************)
C10_ValidateKeepsValuesAndTouched ==
    [][ /\ CallStep("validate") =>
              /\ valuesState' = valuesState
              /\ touchedState' = touchedState
        /\ (RenderStep /\ \A i \in 1..Len(batch) : batch[i].op = "validate") =>
              /\ values' = values
              /\ touched' = touched
              /\ dirty' = dirty
              /\ isDirty' = isDirty ]_vars

\* A handler that only called validate(), which returned false, was
\* rendered with dirty values and touched flags in place.
C10_Witness ==
    /\ ~pending /\ LastIs("validate") /\ LastCall.ret = "false"
    /\ \A i \in 1..Len(batch) : batch[i].op = "validate"
    /\ errors # Empty
    /\ isDirty /\ touched # Empty

(***************************************************************************)
(* Vocabulary of the binding properties.                                   *)
(***************************************************************************)
\* A bind.* call of kind was made on the current render.
Bound(kind) == adapter.kind = kind

\* The value is null or undefined.
Absent(v) == v = Null \/ v = Undefined

\* The value is a string / a number (NaN is one) / a boolean.
IsString(v) == v.t = "string"
IsNumber(v) == v.t \in {"number", "NaN"}
IsBoolean(v) == v.t = "boolean"

\* The state of the hook: its cells, its read model and its handler log.
hookState == <<schema, initialValues, valuesState, errorsState, touchedState,
               valuesChanged, values, errors, touched, dirty, isDirty, batch, pending>>

(***************************************************************************)
(* C11: bind.text(f) raises its type-mismatch error exactly when the       *)
(* current value of f is neither null/undefined nor a string, bind.number  *)
(* exactly when it is neither null/undefined nor a number; a call that     *)
(* raises changes no state, and for a null or undefined value the adapter  *)
(* is returned with '' as its value.                                       *)
(***************************************************************************)
C11_AdapterGuard ==
    /\ Bound("text") =>
          /\ adapter.threw = (~Absent(values[adapter.name]) /\ ~IsString(values[adapter.name]))
          /\ Absent(values[adapter.name]) => (~adapter.threw /\ adapter.shown = Str(""))
    /\ Bound("number") =>
          /\ adapter.threw = (~Absent(values[adapter.name]) /\ ~IsNumber(values[adapter.name]))
          /\ Absent(values[adapter.name]) => (~adapter.threw /\ adapter.shown = Str(""))

C11_TextAndNumberFailFast ==
    /\ []C11_AdapterGuard
    /\ [][ (adapter' # NoAdapter /\ adapter'.threw) => hookState' = hookState ]_vars

\* bind.number raised for a field that a select handler had overwritten
\* with a string.
C11_Witness ==
    /\ Bound("number") /\ adapter.threw
    /\ LastIs("setFieldValue") /\ LastCall.name = adapter.name
    /\ IsString(LastCall.value)
    /\ IsNumber(initialValues[adapter.name])

(***************************************************************************)
(* C12: bind.checkbox(f) never fails on a type mismatch: for any current   *)
(* value it returns an adapter whose checked flag is the value coerced to  *)
(* boolean.                                                                *)
(***************************************************************************)
C12_CheckboxNeverFails ==
    Bound("checkbox") => ~adapter.threw

(***************************************************************************)
(* C12, amended: bind.checkbox(f) raises its type-mismatch error exactly   *)
(* when the current value is neither null/undefined nor a boolean;         *)
(* otherwise its checked flag is the value coerced to boolean (false for   *)
(* null and undefined), and its change handler stores the raw boolean.     *)
(***************************************************************************)
C12_CheckboxGuard ==
    Bound("checkbox") =>
        /\ adapter.threw = (~Absent(values[adapter.name]) /\ ~IsBoolean(values[adapter.name]))
        /\ ~adapter.threw => adapter.shown = Bool(values[adapter.name] = Bool(TRUE))

C12_CheckboxFailsFastOrCoerces ==
    /\ []C12_CheckboxGuard
    /\ [][ \A name \in Fields : \A checked \in CheckedRaw :
              CheckboxOnChange(name, checked) =>
                  /\ Absent(values[name]) \/ IsBoolean(values[name])
                  /\ valuesState'[name] = Bool(checked) ]_vars

\* bind.checkbox returned a checked adapter for a field the checkbox handler
\* had set to true.
C12_Witness ==
    /\ Bound("checkbox") /\ ~adapter.threw
    /\ adapter.shown = Bool(TRUE)
    /\ values[adapter.name] = Bool(TRUE)
    /\ ~IsBoolean(initialValues[adapter.name])

(***************************************************************************)
(* C13: the change handler of bind.number(f) stores null for the empty     *)
(* input (not 0: a field initialised to 0 becomes dirty) and the parsed    *)
(* number for any other input, NaN for a non-numeric one; it produces no   *)
(* errors entry.                                                           *)
(***************************************************************************)
\* What the claim expects the handler to store for the inputs of the model.
C13_Expected(raw) ==
    CASE raw = "" -> Null
      [] raw = "0" -> Num(0)
      [] raw = "-1" -> Num(-1)
      [] raw = "x" -> NaN

C13_NumberHandlerStores ==
    /\ [][ \A name \in Fields : \A raw \in NumberRaw :
              NumberOnChange(name, raw) =>
                  /\ valuesState'[name] = C13_Expected(raw)
                  /\ errorsState' = errorsState
                  /\ pending' /\ batch'[Len(batch')].op = "setFieldValue" ]_vars
    /\ [](( /\ ~pending /\ Len(batch) = 1 /\ LastIs("setFieldValue")
            /\ LastCall.value \in {Null, NaN}
            /\ initialValues[LastCall.name] = Num(0) ) =>
               /\ values[LastCall.name] = LastCall.value
               /\ dirty[LastCall.name])

\* The number handler stored NaN in a field initialised to 0: the field is
\* dirty and there is no errors entry.
C13_Witness ==
    /\ ~pending /\ Len(batch) = 1 /\ LastIs("setFieldValue")
    /\ LastCall.value = NaN
    /\ initialValues[LastCall.name] = Num(0)
    /\ values[LastCall.name] = NaN
    /\ dirty[LastCall.name]
    /\ errors = Empty

(***************************************************************************)
(* C14: the change handler of each of the four adapters leaves touched[f]  *)
(* true, also when the value it stores equals the current or the initial   *)
(* value; no write to values leaves the flag of its field unset.           *)
(***************************************************************************)
\* This step is a change handler of an adapter of the field name.
HandlerStep(name) ==
    \/ \E raw \in TextRaw : TextOnChange(name, raw)
    \/ \E raw \in NumberRaw : NumberOnChange(name, raw)
    \/ \E checked \in CheckedRaw : CheckboxOnChange(name, checked)
    \/ \E raw \in SelectRaw : SelectOnChange(name, raw)

\* The handler that is being rendered wrote name and did not reset after it.
WroteLast(name) ==
    \E i \in 1..Len(batch) :
        /\ batch[i].op = "setFieldValue" /\ batch[i].name = name
        /\ \A j \in (i + 1)..Len(batch) : batch[j].op # "reset"

C14_HandlersTouch ==
    [][ \A name \in Fields :
          /\ HandlerStep(name) => IsTouched(touchedState', name)
          /\ (CallStep("setFieldValue") /\ batch'[Len(batch')].name = name) =>
                IsTouched(touchedState', name)
          /\ (RenderStep /\ WroteLast(name)) => IsTouched(touched', name) ]_vars

\* A checkbox handler stored true twice in a row in a field and another
\* handler wrote the initial value of the other field: both are touched.
C14_Witness ==
    /\ ~pending /\ Len(batch) = 2
    /\ batch[1] = batch[2]
    /\ LastIs("setFieldValue") /\ LastCall.value = Bool(TRUE)
    /\ IsTouched(touched, LastCall.name)
    /\ \E g \in Fields \ {LastCall.name} :
          IsTouched(touched, g) /\ values[g] = initialValues[g]

(***************************************************************************)
(* C15: round trip: after setFieldValue(f, v) and then setFieldValue(f,    *)
(* original) with original deep-equal to initialValues[f], dirty[f] is     *)
(* false, isDirty is true exactly when another field is still dirty, and   *)
(* touched[f] is still true.                                               *)
(***************************************************************************)
C15_RoundTripIsClean ==
    ( /\ ~pending /\ LastIs("setFieldValue")
      /\ DeepEqual(LastCall.value, initialValues[LastCall.name]) ) =>
        /\ dirty[LastCall.name] = FALSE
        /\ isDirty = (\E g \in Fields \ {LastCall.name} :
                         ~DeepEqual(values[g], initialValues[g]))
        /\ IsTouched(touched, LastCall.name)

\* One handler wrote another value and then an object with the initial
\* contents (not the initial object) into a field, while another field stays
\* dirty.
C15_Witness ==
    /\ ~pending /\ Len(batch) = 2 /\ LastIs("setFieldValue")
    /\ batch[1].op = "setFieldValue" /\ batch[1].name = LastCall.name
    /\ ~DeepEqual(batch[1].value, initialValues[LastCall.name])
    /\ IsObject(LastCall.value)
    /\ LastCall.value.ref # initialValues[LastCall.name].ref
    /\ DeepEqual(LastCall.value, initialValues[LastCall.name])
    /\ ~dirty[LastCall.name] /\ isDirty

(***************************************************************************)
(* C16: initialValues is an immutable baseline: no setFieldValue,          *)
(* validate, reset or handler call changes it, and dirty is computed       *)
(* against, and reset() restores, the initial values the hook was mounted  *)
(* with (the ones values started from).                                    *)
(***************************************************************************)
\* The initialValues the hook with this schema was mounted with.
Mounted == (CHOOSE setup \in Setups : setup.schema = schema).initialValues

C16_Baseline ==
    /\ initialValues = Mounted
    /\ \A f \in DOMAIN values : dirty[f] = ~DeepEqual(values[f], Mounted[f])
    /\ (LastIs("reset") /\ ~pending) =>
          /\ DOMAIN values = DOMAIN Mounted
          /\ \A f \in DOMAIN values : DeepEqual(values[f], Mounted[f])

C17_ErrorsOnlyByValidateAndReset ==
    [][ /\ CallStep("setFieldValue") => errorsState' = errorsState
        /\ (\E name \in Fields : HandlerStep(name)) => errorsState' = errorsState
        /\ errorsState' # errorsState => (CallStep("validate") \/ CallStep("reset"))
        /\ errors' # errors =>
              /\ RenderStep
              /\ \E i \in 1..Len(batch) : batch[i].op \in {"validate", "reset"}
        /\ (RenderStep /\ \A i \in 1..Len(batch) : batch[i].op = "setFieldValue") =>
              errors' = errors ]_vars

\* The name field still shows the error of an earlier validate() although
\* the last handler stored a name the schema accepts.
C17_Witness ==
    /\ ~pending /\ schema = "user"
    /\ LastIs("setFieldValue") /\ LastCall.name = "name"
    /\ values.name = Str("ab")
    /\ "name" \in DOMAIN errors
    /\ errors.name = "Required, Too short"

(***************************************************************************)
(* C18: no lost updates: when setFieldValue(f, v) and setFieldValue(g, w)  *)
(* for distinct fields are called back-to-back from one render, the        *)
(* resulting state has values[f] = v and values[g] = w and both fields     *)
(* touched, in either order.                                               *)
(***************************************************************************)
\* The last two calls of the handler are writes to two distinct fields.
TwoWrites ==
    /\ Len(batch) >= 2
    /\ LastIs("setFieldValue")
    /\ batch[Len(batch) - 1].op = "setFieldValue"
    /\ batch[Len(batch) - 1].name # LastCall.name

C18_NoLostUpdate ==
    TwoWrites =>
        LET first == batch[Len(batch) - 1]
            second == LastCall
        IN  /\ valuesState[first.name] = first.value
            /\ valuesState[second.name] = second.value
            /\ IsTouched(touchedState, first.name)
            /\ IsTouched(touchedState, second.name)
            /\ ~pending =>
                  /\ values[first.name] = first.value
                  /\ values[second.name] = second.value
                  /\ IsTouched(touched, first.name)
                  /\ IsTouched(touched, second.name)

\* One handler wrote both fields, age first, and the render shows both new
\* values and both flags.
C18_Witness ==
    /\ ~pending /\ TwoWrites /\ Len(batch) = 2
    /\ batch[1].name = "age" /\ batch[2].name = "name"
    /\ values.age = batch[1].value /\ values.age # initialValues.age
    /\ values.name = batch[2].value /\ values.name # initialValues.name
    /\ DOMAIN touched = {"name", "age"}

(***************************************************************************)
(* C19: validate() returns true if and only if errors is empty after the   *)
(* call: whenever it returns false, errors holds at least one entry.       *)
(***************************************************************************)
C19_FalseIffErrors ==
    LastIs("validate") => ((LastCall.ret = "true") <=> (errorsState = Empty))

====
